---- MODULE Spec2Model ----
(***************************************************************************)
(* The manage_asset and run_tests tools of the Unity MCP server: argument  *)
(* normalisation, envelope construction, the send through the retrying     *)
(* transport, and the shaping of the value handed back to the caller.      *)
(*                                                                         *)
(* Python values are tagged records [kind, val].  A Python str is either   *)
(*   kind "str"  : val is the sequence of its characters, or               *)
(*   kind "text" : val is the text of a message built by an f-string or a  *)
(*                 repr, kept whole because no code looks inside it.       *)
(***************************************************************************)
EXTENDS Integers, Sequences, FiniteSets, TLC

VARIABLES pc, tool, args, parsed, test_names_list, params, attempts,
          outcomes, response, result, raised

vars == <<pc, tool, args, parsed, test_names_list, params, attempts,
          outcomes, response, result, raised>>

(***************************************************************************)
(* Bounds of the model.                                                    *)
(***************************************************************************)
MaxListLen == 2

(***************************************************************************)
(* Python values.                                                          *)
(***************************************************************************)
None == [kind |-> "none"]
S(chars) == [kind |-> "str", val |-> chars]
T(text) == [kind |-> "text", val |-> text]
I(n) == [kind |-> "int", val |-> n]
B(b) == [kind |-> "bool", val |-> b]
L(items) == [kind |-> "list", val |-> items]
D(m) == [kind |-> "dict", val |-> m]
Obj(name) == [kind |-> "object", val |-> name]

EmptyMap == [k \in {} |-> None]

IsStr(v) == v.kind \in {"str", "text"}
IsDict(v) == v.kind = "dict"

\* len(s) > 0 for a Python str
StrNonEmpty(v) == IF v.kind = "str" THEN Len(v.val) > 0 ELSE v.val # ""

\* Python truthiness, as used by `if x:` / `not x` / `x and ...` / `x or y`
Truthy(v) ==
    CASE v.kind = "none" -> FALSE
      [] v.kind \in {"str", "text"} -> StrNonEmpty(v)
      [] v.kind = "int" -> v.val # 0
      [] v.kind = "bool" -> v.val
      [] v.kind = "list" -> Len(v.val) > 0
      [] v.kind = "dict" -> DOMAIN v.val # {}
      [] OTHER -> TRUE

(***************************************************************************)
(* Character-level string operations.                                      *)
(***************************************************************************)
Whitespace == {" ", "\t", "\n"}

Uppers == <<"A", "B", "C", "D", "E", "F", "G", "H", "I", "J", "K", "L", "M",
            "N", "O", "P", "Q", "R", "S", "T", "U", "V", "W", "X", "Y", "Z">>
Lowers == <<"a", "b", "c", "d", "e", "f", "g", "h", "i", "j", "k", "l", "m",
            "n", "o", "p", "q", "r", "s", "t", "u", "v", "w", "x", "y", "z">>

LowerChar(c) ==
    IF \E i \in DOMAIN Uppers : Uppers[i] = c
    THEN Lowers[CHOOSE i \in DOMAIN Uppers : Uppers[i] = c]
    ELSE c

\* str.lower()
Lower(chars) == [i \in DOMAIN chars |-> LowerChar(chars[i])]

RECURSIVE LStrip(_)
LStrip(chars) ==
    IF chars = <<>> \/ Head(chars) \notin Whitespace
    THEN chars
    ELSE LStrip(Tail(chars))

RECURSIVE RStrip(_)
RStrip(chars) ==
    IF chars = <<>> \/ chars[Len(chars)] \notin Whitespace
    THEN chars
    ELSE RStrip(SubSeq(chars, 1, Len(chars) - 1))

\* str.strip()
Strip(chars) == RStrip(LStrip(chars))

\* str.startswith(prefix)
StartsWith(chars, prefix) ==
    /\ Len(chars) >= Len(prefix)
    /\ SubSeq(chars, 1, Len(prefix)) = prefix

Digits == <<"0", "1", "2", "3", "4", "5", "6", "7", "8", "9">>

IsDigit(c) == \E i \in DOMAIN Digits : Digits[i] = c
DigitVal(c) == (CHOOSE i \in DOMAIN Digits : Digits[i] = c) - 1

RECURSIVE ParseDigits(_)
ParseDigits(chars) ==
    IF chars = <<>> THEN 0
    ELSE 10 * ParseDigits(SubSeq(chars, 1, Len(chars) - 1))
         + DigitVal(chars[Len(chars)])

RECURSIVE FormatDigits(_)
FormatDigits(n) ==
    IF n < 10 THEN <<Digits[n + 1]>>
    ELSE FormatDigits(n \div 10) \o <<Digits[(n % 10) + 1]>>

\* str(v)
Str(v) ==
    CASE v.kind \in {"str", "text"} -> v
      [] v.kind = "int" -> S(FormatDigits(v.val))
      [] v.kind = "none" -> S(<<"N", "o", "n", "e">>)
      [] v.kind = "bool" -> T(IF v.val THEN "True" ELSE "False")
      [] v.kind = "object" -> T(v.val)
      [] OTHER -> T("<repr>")

(***************************************************************************)
(* Type coercion utilities.                                                *)
(***************************************************************************)
\* services.tools.utils.coerce_int
coerce_int(value) ==
    CASE value.kind = "int" -> value
      [] value.kind = "str" ->
            LET t == Strip(value.val)
            IN  IF t # <<>> /\ \A i \in DOMAIN t : IsDigit(t[i])
                THEN I(ParseDigits(t))
                ELSE None
      [] OTHER -> None

\* [str(v).strip() for v in value if v and str(v).strip()]
RECURSIVE StrippedEntries(_)
StrippedEntries(items) ==
    IF items = <<>> THEN <<>>
    ELSE LET v == Head(items)
             rest == StrippedEntries(Tail(items))
         IN  IF Truthy(v) /\ Strip(Str(v).val) # <<>>
             THEN <<S(Strip(Str(v).val))>> \o rest
             ELSE rest

\* run_tests._coerce_string_list
_coerce_string_list(value) ==
    CASE value.kind = "none" -> None
      [] value.kind = "str" ->
            IF Strip(value.val) # <<>> THEN L(<<value>>) ELSE None
      [] value.kind = "list" ->
            LET res == StrippedEntries(value.val)
            IN  IF res # <<>> THEN L(res) ELSE None
      [] OTHER -> None

(***************************************************************************)
(* Payload normaliser of manage_asset.                                     *)
(***************************************************************************)
Return(a, b) == [kind |-> "return", val |-> <<a, b>>]
Raise(exc) == [kind |-> "raise", val |-> exc]
Ok(v) == [kind |-> "ok", val |-> v]

\* The strings the `properties` argument is drawn from.
JsonObject == T("{\"a\": 1}")
JsonEmptyObject == T("{}")
JsonArray == T("[1, 2]")
LiteralDict == T("{'a': 1, 'b': True}")
LiteralTuple == T("(1, 2)")
NotJson == T("not json {}")
BareName == T("foo")
UnhashableKey == T("{[1]: 2}")

PropertyStrings ==
    {JsonObject, JsonEmptyObject, JsonArray, LiteralDict, LiteralTuple,
     NotJson, BareName, UnhashableKey}

\* json.loads on the strings above
JsonLoads(raw) ==
    CASE raw = JsonObject -> Ok(D([a |-> I(1)]))
      [] raw = JsonEmptyObject -> Ok(D(EmptyMap))
      [] raw = JsonArray -> Ok(L(<<I(1), I(2)>>))
      [] OTHER -> Raise("JSONDecodeError")

\* ast.literal_eval on the strings above
LiteralEval(raw) ==
    CASE raw = JsonObject -> Ok(D([a |-> I(1)]))
      [] raw = JsonEmptyObject -> Ok(D(EmptyMap))
      [] raw = JsonArray -> Ok(L(<<I(1), I(2)>>))
      [] raw = LiteralDict -> Ok(D([a |-> I(1), b |-> B(TRUE)]))
      [] raw = LiteralTuple -> Ok([kind |-> "tuple", val |-> <<I(1), I(2)>>])
      [] raw = NotJson -> Raise("SyntaxError")
      [] raw = BareName -> Raise("ValueError")
      [] raw = UnhashableKey -> Raise("TypeError")
      [] OTHER -> Raise("SyntaxError")

\* services.tools.utils.parse_json_payload
parse_json_payload(value) ==
    IF ~IsStr(value) THEN value
    ELSE LET decoded == JsonLoads(value)
         IN  IF decoded.kind = "ok" THEN decoded.val ELSE value

_parse_properties_string(raw) ==
    LET j == JsonLoads(raw)
    IN  IF j.kind = "ok"
        THEN IF ~IsDict(j.val)
             THEN Return(None, T("manage_asset: properties JSON must decode to a dictionary; received <type>"))
             ELSE Return(j.val, T("JSON"))
        ELSE LET e == LiteralEval(raw)
             IN  IF e.kind = "ok"
                 THEN IF ~IsDict(e.val)
                      THEN Return(None, T("manage_asset: properties string must evaluate to a dictionary; received <type>"))
                      ELSE Return(e.val, T("Python literal"))
                 ELSE IF e.val \in {"ValueError", "SyntaxError"}
                      THEN Return(None, T("manage_asset: failed to parse properties string. JSON error: <json_err>; literal_eval error: <literal_err>"))
                      ELSE Raise(e.val)

_normalize_properties(raw) ==
    CASE raw.kind = "none" -> Return(D(EmptyMap), None)
      [] IsDict(raw) -> Return(raw, None)
      [] IsStr(raw) ->
            LET p == parse_json_payload(raw)
            IN  IF IsDict(p) THEN Return(p, None)
                ELSE LET r == _parse_properties_string(raw)
                     IN  IF r.kind = "raise" THEN r
                         ELSE IF r.val[1].kind = "none"
                              THEN Return(None, r.val[2])
                              ELSE Return(r.val[1], None)
      [] OTHER -> Return(None, T("manage_asset: properties must be a dict or JSON string; received <type>"))

(***************************************************************************)
(* manage_asset: search remap and envelope.                                *)
(***************************************************************************)
SEARCH == <<"s", "e", "a", "r", "c", "h">>
ASSETS == <<"A", "s", "s", "e", "t", "s">>
QueryPrefix == <<"t", ":">>

\* Variant: the query is copied into search_pattern but path is not reset.
SearchRemap_keepsPath(action, path, asset_type, search_pattern, filter_type) ==
    LET action_l == Lower(action)
        raw_path == IF Truthy(path) THEN Strip(path.val) ELSE <<>>
        moved == (~Truthy(search_pattern)) /\ StartsWith(raw_path, QueryPrefix)
        mapped == (~Truthy(filter_type)) /\ Truthy(asset_type) /\ IsStr(asset_type)
    IN  IF action_l = SEARCH
        THEN [path |-> path,
              search_pattern |-> IF moved THEN S(raw_path) ELSE search_pattern,
              filter_type |-> IF mapped THEN asset_type ELSE filter_type]
        ELSE [path |-> path,
              search_pattern |-> search_pattern,
              filter_type |-> filter_type]

\* Variant: the remap is applied whatever the action.
SearchRemap_anyAction(action, path, asset_type, search_pattern, filter_type) ==
    LET raw_path == IF Truthy(path) THEN Strip(path.val) ELSE <<>>
        moved == (~Truthy(search_pattern)) /\ StartsWith(raw_path, QueryPrefix)
        mapped == (~Truthy(filter_type)) /\ Truthy(asset_type) /\ IsStr(asset_type)
    IN  [path |-> IF moved THEN S(ASSETS) ELSE path,
         search_pattern |-> IF moved THEN S(raw_path) ELSE search_pattern,
         filter_type |-> IF mapped THEN asset_type ELSE filter_type]

\* The `if action_l == "search":` block: the values of path, search_pattern
\* and filter_type after it.
SearchRemap(action, path, asset_type, search_pattern, filter_type) ==
    LET action_l == Lower(action)
        raw_path == IF Truthy(path) THEN Strip(path.val) ELSE <<>>
        moved == (~Truthy(search_pattern)) /\ StartsWith(raw_path, QueryPrefix)
        mapped == (~Truthy(filter_type)) /\ Truthy(asset_type) /\ IsStr(asset_type)
    IN  IF action_l = SEARCH
        THEN [path |-> IF moved THEN S(ASSETS) ELSE path,
              search_pattern |-> IF moved THEN S(raw_path) ELSE search_pattern,
              filter_type |-> IF mapped THEN asset_type ELSE filter_type]
        ELSE [path |-> path,
              search_pattern |-> search_pattern,
              filter_type |-> filter_type]

\* Variant: the comprehension that removes None values is missing.
DropNone_keepsAll(d) == d

\* {k: v for k, v in params_dict.items() if v is not None}
DropNone(d) == [k \in {x \in DOMAIN d : d[x].kind # "none"} |-> d[k]]

\* Variant: the action is put in the envelope as given.
EnvelopeAction_asGiven(action) == S(action)

\* "action": action.lower()
EnvelopeAction(action) == S(Lower(action))

\* Variant: the error is reported but the early return is missing.
IsParseFailure_fallsThrough(parse_error) == FALSE

\* if parse_error:
IsParseFailure(parse_error) == Truthy(parse_error)

\* The parameter mapping manage_asset hands to the transport.
AssetParams(a, properties) ==
    LET r == SearchRemap(a.action, a.path, a.asset_type, a.search_pattern,
                         a.filter_type)
    IN  DropNone([action |-> EnvelopeAction(a.action),
                  path |-> r.path,
                  assetType |-> a.asset_type,
                  properties |-> properties,
                  destination |-> a.destination,
                  generatePreview |-> a.generate_preview,
                  searchPattern |-> r.search_pattern,
                  filterType |-> r.filter_type,
                  filterDateAfter |-> a.filter_date_after,
                  pageSize |-> coerce_int(a.page_size),
                  pageNumber |-> coerce_int(a.page_number)])

(***************************************************************************)
(* run_tests: envelope.                                                    *)
(***************************************************************************)
\* params[key] = value, guarded by `if cond`
SetIf(cond, d, key, value) ==
    IF cond
    THEN [k \in DOMAIN d \cup {key} |-> IF k = key THEN value ELSE d[k]]
    ELSE d

TestParams(a) ==
    LET ts == coerce_int(a.timeout_seconds)
        tn == _coerce_string_list(a.test_names)
        gn == _coerce_string_list(a.group_names)
        cn == _coerce_string_list(a.category_names)
        an == _coerce_string_list(a.assembly_names)
        p0 == [mode |-> a.mode]
        p1 == SetIf(ts.kind # "none", p0, "timeoutSeconds", ts)
        p2 == SetIf(Truthy(tn), p1, "testNames", tn)
        p3 == SetIf(Truthy(gn), p2, "groupNames", gn)
        p4 == SetIf(Truthy(cn), p3, "categoryNames", cn)
    IN  SetIf(Truthy(an), p4, "assemblyNames", an)

(***************************************************************************)
(* Retrying transport (send_with_unity_instance over                       *)
(* async_send_command_with_retry) and the peer.                            *)
(***************************************************************************)
MaxAttempts == 3

GET_INFO == <<"g", "e", "t", "_", "i", "n", "f", "o">>
GET_COMPONENTS == <<"g", "e", "t", "_", "c", "o", "m", "p", "o", "n", "e", "n", "t", "s">>
GET_HIERARCHY == <<"g", "e", "t", "_", "h", "i", "e", "r", "a", "r", "c", "h", "y">>
CREATE == <<"c", "r", "e", "a", "t", "e">>

ReadOnlyActions == {SEARCH, GET_INFO, GET_COMPONENTS, GET_HIERARCHY}

\* Is the command in the envelope known to be safely repeatable?
IsRepeatable(p) ==
    /\ "action" \in DOMAIN p
    /\ p["action"].kind = "str"
    /\ p["action"].val \in ReadOnlyActions

\* May an attempt that ended with `outcome` be followed by another one?
MayRetry(outcome, p, n) ==
    /\ n < MaxAttempts
    /\ \/ outcome = "ConnectionError"
       \/ outcome = "TimedOut" /\ IsRepeatable(p)

\* The failure result the transport returns once it gives up.
FailureResult(outcome) ==
    D([success |-> B(FALSE), error |-> T(outcome),
       message |-> T("transport gave up after " \o outcome)])

\* What the peer may report.
PeerValues ==
    {D([success |-> B(TRUE), data |-> D(EmptyMap)]),
     D([success |-> B(TRUE),
        data |-> D([mode |-> T("EditMode"), summary |-> D(EmptyMap),
                    results |-> L(<<>>)])]),
     D([success |-> B(FALSE), message |-> T("peer error")]),
     D([success |-> B(FALSE)]),
     S(<<>>),
     Obj("MCPResponse(success=False, error='no unity instance')")}

(***************************************************************************)
(* Response shaping.                                                       *)
(***************************************************************************)
\* return result if isinstance(result, dict) else {"success": False, "message": str(result)}
AssetResult(res) ==
    IF IsDict(res) THEN res
    ELSE D([success |-> B(FALSE), message |-> Str(res)])

\* Does RunTestsResponse(**response) validate?  `success` is required; `data`
\* is a RunTestsResult (mode, summary, results) or None.
ValidatesAsRunTestsResponse(m) ==
    /\ "success" \in DOMAIN m
    /\ "data" \in DOMAIN m =>
          \/ m["data"].kind = "none"
          \/ /\ IsDict(m["data"])
             /\ {"mode", "summary", "results"} \subseteq DOMAIN m["data"].val

\* return RunTestsResponse(**response) if isinstance(response, dict) else response
TestsResult(res) ==
    IF IsDict(res)
    THEN IF ValidatesAsRunTestsResponse(res.val)
         THEN [kind |-> "return", val |-> [kind |-> "RunTestsResponse", val |-> res.val]]
         ELSE Raise("ValidationError")
    ELSE [kind |-> "return", val |-> res]

(***************************************************************************)
(* Arguments the tools are called with.                                    *)
(***************************************************************************)
Actions == {SEARCH, <<"S", "e", "a", "r", "c", "h">>, CREATE, GET_INFO}

Paths ==
    {S(<<"t", ":", "M">>), S(<<"t", ":", "M", " ">>), S(<<"A", "/", "m">>)}

AssetTypes == {None, S(<<>>), S(<<"M">>)}
SearchPatterns == {None, S(<<>>), S(<<"*">>)}
FilterTypes == {None, S(<<"F">>)}

Properties ==
    {None, D([a |-> I(1)]), I(5)} \cup (PropertyStrings \ {JsonEmptyObject})

\* The remaining optional arguments, each omitted in one profile and
\* supplied in another.
AssetExtras ==
    {[destination |-> None, filter_date_after |-> None, page_size |-> None,
      page_number |-> None, generate_preview |-> B(FALSE)],
     [destination |-> S(<<"d">>), filter_date_after |-> None,
      page_size |-> S(<<" ", "2", "5", " ">>), page_number |-> None,
      generate_preview |-> B(TRUE)],
     [destination |-> None, filter_date_after |-> S(<<"y">>),
      page_size |-> S(<<"a", "b", "c">>), page_number |-> I(2),
      generate_preview |-> B(FALSE)],
     [destination |-> S(<<"d">>), filter_date_after |-> S(<<"y">>),
      page_size |-> I(25), page_number |-> S(<<"1">>),
      generate_preview |-> B(FALSE)]}

Entries ==
    {S(<<"a">>), S(<<" ">>), S(<<" ", "b", " ">>), I(0), I(7)}

RECURSIVE ListsUpTo(_)
ListsUpTo(n) ==
    IF n = 0 THEN {<<>>}
    ELSE LET shorter == ListsUpTo(n - 1)
         IN  shorter \cup {Append(l, e) : l \in shorter, e \in Entries}

NameArgs ==
    {None, S(<<>>), S(<<" ">>), S(<<"x">>), S(<<" ", "x", " ">>), I(5)}
        \cup {L(l) : l \in ListsUpTo(MaxListLen)}

TestExtras ==
    {[timeout_seconds |-> None, group_names |-> None, category_names |-> None,
      assembly_names |-> None],
     [timeout_seconds |-> S(<<"6", "0">>), group_names |-> S(<<"g">>),
      category_names |-> L(<<>>), assembly_names |-> L(<<S(<<"A">>), S(<<>>)>>)],
     [timeout_seconds |-> S(<<"x">>), group_names |-> L(<<S(<<" ">>)>>),
      category_names |-> S(<<"c">>), assembly_names |-> None]}

Modes == {T("EditMode"), T("PlayMode")}

(***************************************************************************)
(* The state machine.                                                      *)
(***************************************************************************)
Init ==
    /\ pc = "idle"
    /\ tool = "none"
    /\ args = None
    /\ parsed = None
    /\ test_names_list = None
    /\ params = EmptyMap
    /\ attempts = 0
    /\ outcomes = <<>>
    /\ response = None
    /\ result = None
    /\ raised = "none"

\* manage_asset, from its entry to the await of the send (or to its return
\* when the properties cannot be normalised).
ManageAsset(a) ==
    LET n == _normalize_properties(a.properties)
    IN  /\ pc = "idle"
        /\ tool' = "manage_asset"
        /\ args' = a
        /\ parsed' = n
        /\ IF n.kind = "raise"
           THEN /\ raised' = n.val
                /\ pc' = "done"
                /\ UNCHANGED <<params, result>>
           ELSE IF IsParseFailure(n.val[2])
           THEN /\ result' = D([success |-> B(FALSE), message |-> n.val[2]])
                /\ pc' = "done"
                /\ UNCHANGED <<params, raised>>
           ELSE /\ params' = AssetParams(a, n.val[1])
                /\ pc' = "sending"
                /\ UNCHANGED <<result, raised>>
        /\ UNCHANGED <<test_names_list, attempts, outcomes, response>>

\* run_tests, from its entry to the await of the send.
RunTests(a) ==
    /\ pc = "idle"
    /\ tool' = "run_tests"
    /\ args' = a
    /\ test_names_list' = _coerce_string_list(a.test_names)
    /\ params' = TestParams(a)
    /\ pc' = "sending"
    /\ UNCHANGED <<parsed, attempts, outcomes, response, result, raised>>

\* The transport makes one send attempt.
Send ==
    /\ pc = "sending"
    /\ attempts' = attempts + 1
    /\ pc' = "awaiting"
    /\ UNCHANGED <<tool, args, parsed, test_names_list, params, outcomes,
                   response, result, raised>>

\* The peer answers the attempt in flight.
Completed(v) ==
    /\ pc = "awaiting"
    /\ outcomes' = Append(outcomes, "Completed")
    /\ response' = v
    /\ pc' = "responded"
    /\ UNCHANGED <<tool, args, parsed, test_names_list, params, attempts,
                   result, raised>>

\* The attempt in flight fails with `outcome`.
Failed(outcome) ==
    /\ pc = "awaiting"
    /\ outcomes' = Append(outcomes, outcome)
    /\ IF MayRetry(outcome, params, attempts)
       THEN pc' = "sending" /\ UNCHANGED response
       ELSE pc' = "responded" /\ response' = FailureResult(outcome)
    /\ UNCHANGED <<tool, args, parsed, test_names_list, params, attempts,
                   result, raised>>

TimedOut == Failed("TimedOut")

ConnectionError == Failed("ConnectionError")

\* manage_asset resumes after the await and returns.
ManageAssetReturn ==
    /\ pc = "responded"
    /\ tool = "manage_asset"
    /\ result' = AssetResult(response)
    /\ pc' = "done"
    /\ UNCHANGED <<tool, args, parsed, test_names_list, params, attempts,
                   outcomes, response, raised>>

\* run_tests resumes after the await and returns.
RunTestsReturn ==
    /\ pc = "responded"
    /\ tool = "run_tests"
    /\ LET r == TestsResult(response)
       IN  IF r.kind = "raise"
           THEN raised' = r.val /\ UNCHANGED result
           ELSE result' = r.val /\ UNCHANGED raised
    /\ pc' = "done"
    /\ UNCHANGED <<tool, args, parsed, test_names_list, params, attempts,
                   outcomes, response>>

Next ==
    \/ /\ pc = "idle"
       /\ \E action \in Actions, path \in Paths, asset_type \in AssetTypes,
          properties \in Properties, search_pattern \in SearchPatterns,
          filter_type \in FilterTypes, x \in AssetExtras :
          ManageAsset([action |-> action, path |-> path,
                       asset_type |-> asset_type, properties |-> properties,
                       destination |-> x.destination,
                       generate_preview |-> x.generate_preview,
                       search_pattern |-> search_pattern,
                       filter_type |-> filter_type,
                       filter_date_after |-> x.filter_date_after,
                       page_size |-> x.page_size,
                       page_number |-> x.page_number])
    \/ /\ pc = "idle"
       /\ \E mode \in Modes, test_names \in NameArgs, x \in TestExtras :
          RunTests([mode |-> mode, timeout_seconds |-> x.timeout_seconds,
                    test_names |-> test_names, group_names |-> x.group_names,
                    category_names |-> x.category_names,
                    assembly_names |-> x.assembly_names])
    \/ Send
    \/ \E v \in PeerValues : Completed(v)
    \/ TimedOut
    \/ ConnectionError
    \/ ManageAssetReturn
    \/ RunTestsReturn

Spec == Init /\ [][Next]_vars

(***************************************************************************)
(* Properties.                                                             *)
(***************************************************************************)
\* The value of key k in the envelope, None when the key is omitted.
Field(p, k) == IF k \in DOMAIN p THEN p[k] ELSE None

\* manage_asset has built its envelope.
AssetEnvelopeBuilt == tool = "manage_asset" /\ "action" \in DOMAIN params

\* _normalize_properties returned an error.
NormalizationFailed ==
    /\ tool = "manage_asset"
    /\ parsed.kind = "return"
    /\ parsed.val[2].kind # "none"

\* C1: whenever normalisation of `properties` yields an error, manage_asset
\* returns {success: false, message: that error} and no send attempt is made
\* during the call.
C1_ParseFailureIsLocal ==
    NormalizationFailed =>
        /\ pc = "done"
        /\ raised = "none"
        /\ result = D([success |-> B(FALSE), message |-> parsed.val[2]])
        /\ attempts = 0
        /\ outcomes = <<>>

C1_Witness ==
    /\ NormalizationFailed
    /\ args.properties = LiteralTuple
    /\ pc = "done"

\* C2: the parameter mapping handed to the transport by manage_asset or
\* run_tests has no key whose value is None; an optional argument that is
\* omitted, or absent after coercion, has no key in the envelope.
C2_NoNullInEnvelope ==
    /\ \A k \in DOMAIN params : params[k].kind # "none"
    /\ AssetEnvelopeBuilt =>
          /\ args.asset_type.kind = "none" => "assetType" \notin DOMAIN params
          /\ args.destination.kind = "none" => "destination" \notin DOMAIN params
          /\ args.filter_date_after.kind = "none" =>
                "filterDateAfter" \notin DOMAIN params
          /\ coerce_int(args.page_size).kind = "none" =>
                "pageSize" \notin DOMAIN params
          /\ coerce_int(args.page_number).kind = "none" =>
                "pageNumber" \notin DOMAIN params
    /\ tool = "run_tests" =>
          /\ coerce_int(args.timeout_seconds).kind = "none" =>
                "timeoutSeconds" \notin DOMAIN params
          /\ test_names_list.kind = "none" => "testNames" \notin DOMAIN params

C2_Witness ==
    /\ AssetEnvelopeBuilt
    /\ attempts > 0
    /\ args.asset_type.kind = "none"
    /\ args.page_size = S(<<"a", "b", "c">>)
    /\ args.destination.kind = "none"
    /\ DOMAIN params = {"action", "path", "properties", "generatePreview",
                        "filterDateAfter", "pageNumber"}

\* The case C3 is about: a search whose path starts with "t:" and that has no
\* search_pattern.
QueryInPath ==
    /\ AssetEnvelopeBuilt
    /\ Lower(args.action) = SEARCH
    /\ args.search_pattern.kind = "none"
    /\ StartsWith(args.path.val, QueryPrefix)

\* C3 as stated: searchPattern is the original path value, and filterType is
\* asset_type whenever asset_type is supplied and filter_type is not.
C3_AsStated ==
    QueryInPath =>
        /\ Field(params, "path") = S(ASSETS)
        /\ Field(params, "searchPattern") = args.path
        /\ (args.filter_type.kind = "none" /\ args.asset_type.kind # "none") =>
              Field(params, "filterType") = args.asset_type

\* C3 (amended): for a search with no search_pattern and a path that starts
\* with "t:", the envelope has path = "Assets" and searchPattern = the path
\* with surrounding whitespace removed; when also no filter_type is given
\* and asset_type is a non-empty string, filterType = asset_type.  The
\* envelope has these values from before the first send and keeps them.
C3_SearchRemap ==
    QueryInPath =>
        /\ Field(params, "path") = S(ASSETS)
        /\ Field(params, "searchPattern") = S(Strip(args.path.val))
        /\ (args.filter_type.kind = "none" /\ args.asset_type.kind = "str"
                /\ args.asset_type.val # <<>>) =>
              Field(params, "filterType") = args.asset_type

C3_Witness ==
    /\ QueryInPath
    /\ pc = "sending"
    /\ attempts = 0
    /\ args.path = S(<<"t", ":", "M", " ">>)
    /\ args.asset_type = S(<<"M">>)
    /\ args.filter_type.kind = "none"
    /\ Field(params, "searchPattern") = S(<<"t", ":", "M">>)
    /\ Field(params, "filterType") = S(<<"M">>)

\* A structured result: a mapping or response model with a success field.
IsStructured(r) ==
    /\ r.kind \in {"dict", "RunTestsResponse"}
    /\ "success" \in DOMAIN r.val

\* C4: whatever the transport returns, manage_asset and run_tests return a
\* structured result with a success field; a non-mapping transport value is
\* wrapped as {success: false, message: str(value)}, never returned as is.
C4_UniformResultShape ==
    (pc = "done" /\ attempts > 0 /\ raised = "none") =>
        /\ IsStructured(result)
        /\ ~IsDict(response) =>
              result.val = [success |-> B(FALSE), message |-> Str(response)]

\* success=false implies a non-empty message; success=true implies data.
DispatchResultInvariant(r) ==
    /\ IsStructured(r)
    /\ r.val["success"] = B(FALSE) =>
          /\ "message" \in DOMAIN r.val
          /\ IsStr(r.val["message"])
          /\ StrNonEmpty(r.val["message"])
    /\ r.val["success"] = B(TRUE) =>
          /\ "data" \in DOMAIN r.val
          /\ r.val["data"].kind # "none"

\* C5: every result manage_asset returns satisfies the Dispatch Result
\* invariant, on the parse-failure path, on the wrapping path and for
\* mappings passed through.
C5_DispatchResultInvariant ==
    (tool = "manage_asset" /\ pc = "done" /\ raised = "none") =>
        DispatchResultInvariant(result)

\* C6: the payload normaliser returns, for every input, exactly one of
\* (mapping, no error) or (no mapping, non-empty error text), and never lets
\* a decode failure escape as an exception.
C6_NormalizerTotal ==
    tool = "manage_asset" =>
        /\ parsed.kind = "return"
        /\ \/ IsDict(parsed.val[1]) /\ parsed.val[2].kind = "none"
           \/ /\ parsed.val[1].kind = "none"
              /\ IsStr(parsed.val[2])
              /\ StrNonEmpty(parsed.val[2])

\* C7: coerce_string_list of a single string is the one-element sequence of
\* the trimmed string, and absent when the string is empty after trimming.
C7_SingleStringTrimmed ==
    (tool = "run_tests" /\ args.test_names.kind = "str") =>
        test_names_list =
            IF Strip(args.test_names.val) # <<>>
            THEN L(<<S(Strip(args.test_names.val))>>)
            ELSE None

\* The entries C8 says are kept: the trimmed string form of every entry whose
\* string form is non-empty after trimming, in input order.
RECURSIVE NonEmptyTrimmed(_)
NonEmptyTrimmed(items) ==
    IF items = <<>> THEN <<>>
    ELSE LET t == Strip(Str(Head(items)).val)
         IN  (IF t # <<>> THEN <<S(t)>> ELSE <<>>)
                 \o NonEmptyTrimmed(Tail(items))

\* C8: coerce_string_list of a sequence is the trimmed string form of every
\* entry that is non-empty after trimming, in order (the number 0 is kept as
\* "0"), absent when none remains; it is absent for any other type.
C8_SequenceFiltered ==
    (tool = "run_tests" /\ args.test_names.kind \notin {"str", "none"}) =>
        test_names_list =
            IF args.test_names.kind = "list"
                  /\ NonEmptyTrimmed(args.test_names.val) # <<>>
            THEN L(NonEmptyTrimmed(args.test_names.val))
            ELSE None

\* The first send attempt of a manage_asset call timed out.
FirstAttemptTimedOut ==
    /\ tool = "manage_asset"
    /\ Len(outcomes) >= 1
    /\ outcomes[1] = "TimedOut"

\* C9: when the first send attempt of a manage_asset call times out, an
\* action that is not read-only gets a TimedOut failure result and no second
\* attempt, while a read-only action (search, get_info, get_components) is
\* sent again.
C9_TimeoutRetryByAction ==
    FirstAttemptTimedOut =>
        IF Lower(args.action) \in ReadOnlyActions
        THEN pc = "sending" \/ attempts >= 2
        ELSE /\ attempts = 1
             /\ pc \in {"responded", "done"}
             /\ response = FailureResult("TimedOut")
             /\ pc = "done" => raised = "none" /\ result = response

C9_Witness ==
    /\ FirstAttemptTimedOut
    /\ Lower(args.action) = CREATE
    /\ pc = "done"
    /\ attempts = 1
    /\ result.val["success"] = B(FALSE)
    /\ result.val["error"] = T("TimedOut")

\* C10: for every action other than search the envelope's path, searchPattern,
\* filterType and assetType are the caller's values (omitted when not
\* supplied); for a search, assetType is still the caller's value.
C10_RemapOnlyForSearch ==
    AssetEnvelopeBuilt =>
        /\ Field(params, "assetType") = args.asset_type
        /\ Lower(args.action) # SEARCH =>
              /\ Field(params, "path") = args.path
              /\ Field(params, "searchPattern") = args.search_pattern
              /\ Field(params, "filterType") = args.filter_type

C10_Witness ==
    /\ AssetEnvelopeBuilt
    /\ attempts > 0
    /\ Lower(args.action) = CREATE
    /\ args.path = S(<<"t", ":", "M">>)
    /\ args.search_pattern.kind = "none"
    /\ args.filter_type.kind = "none"
    /\ args.asset_type = S(<<"M">>)
    /\ "searchPattern" \notin DOMAIN params
    /\ "filterType" \notin DOMAIN params
====
